---- MODULE Spec2Model ----
(***************************************************************************)
(* uniplot: the interactive loop of plot() (src/uniplot/uniplot.py) and    *)
(* the view configuration (Options) it drives.                             *)
(*                                                                         *)
(* Numbers are fixed-point: one model unit is a quarter of a data unit,    *)
(* and a division rounds down, which stands for the rounding of the        *)
(* floating-point arithmetic.                                              *)
(*                                                                         *)
(* uniplot/options.py, uniplot/param_initializer.py and uniplot/getch.py   *)
(* are not among the sources; the view operations, the bound derivation    *)
(* and the pan/zoom parameters are modelled from spec.md sections 3, 4.2   *)
(* and 6.  plot, _process_action and the frame generation are modelled     *)
(* from src/uniplot/uniplot.py.                                            *)
(***************************************************************************)
EXTENDS Integers, Sequences, FiniteSets

VARIABLES
    pc,           \* position in plot(): "start", "while", "process", "erase", "print", "done"
    series,       \* MultiSeries: the cached aggregate statistics of the data
    kwargs,       \* the keyword arguments plot() was called with
    options,      \* the Options object (view configuration)
    key_pressed,  \* local of _process_action: the lower-cased key of the last call
    raw_key,      \* what getch() returned in the last call
    nKeys,        \* number of getch() calls so far
    calls,        \* the view operations invoked by the last _process_action call
    out,          \* what went to the terminal since the last key read
    screen,       \* the last frame printed: <<>> before the first, then <<frame>>
    before,       \* the bounds and the key as they were when the last _process_action call began
    entry,        \* the function called: "plot" or "plot_to_string"
    returned,     \* the value returned to the caller: None, or Some(list of lines)
    nFrames,      \* number of frames printed so far
    sess,         \* two plot sessions, each with its own series and options
    gen,          \* the frame of a plot_gen generator
    hist,         \* the frame of a histogram call
    logp          \* a plot of series with invalid points under log scale

\* The variables of one plot or plot_to_string call.
plotVars == <<pc, series, kwargs, options, key_pressed, raw_key, nKeys, calls, out, screen,
              before, entry, returned, nFrames>>

vars == <<pc, series, kwargs, options, key_pressed, raw_key, nKeys, calls, out, screen, before,
          entry, returned, nFrames, sess, gen, hist, logp>>

\* What a variable holds in a specification that does not use it.
Unused == "unused"

(* ------------------------------ bounds ---------------------------------- *)

\* Number of keys read in one run of the model.
MaxKeys == 3

\* Number of keys read by two interleaved sessions together.
MaxSessionKeys == 3

\* Number of updates sent to one plot_gen generator.
MaxUpdates == 3

\* Largest number of bins asked of histogram.
MaxBins == 3

\* Largest number of points of one series plotted under log scale.
MaxLogLen == 2

(* ------------------- parameters of the view configuration --------------- *)

\* ViewConfig "a zoom factor": zoom in by ZoomFactor, zoom out by 1/ZoomFactor.
ZoomFactor == 2

\* ViewConfig "a pan step": step_fraction = 1 / PanDen.
PanDen == 4

\* "never allow span to shrink below a minimum epsilon": two data units.
MinSpan == 8

\* Degenerate range (min == max): synthesize +-1 data unit.
DegeneratePad == 4

\* An optional value: None, or Some(v).
None == <<>>
Some(v) == <<v>>

Max(a, b) == IF a >= b THEN a ELSE b
Min(a, b) == IF a <= b THEN a ELSE b

(* ------------------------------ inputs ---------------------------------- *)

\* MultiSeries(xs=xs, ys=ys): x_min(), x_max(), y_min(), y_max() of the data.
\* A single point has min == max on both axes.
SeriesInputs ==
    { [x_min |-> xr[1], x_max |-> xr[2], y_min |-> yr[1], y_max |-> yr[2]] :
        xr \in { <<0, 0>>, <<0, 35>> }, yr \in { <<9, 9>>, <<-8, 24>> } }

\* Keyword arguments: explicit bounds (or None), the interactive flag, the size.
\* The explicit bounds drawn lie on the outer side of the data, so that the
\* lower bound of an axis never exceeds its upper bound.
KwargsInputs ==
    { [x_min |-> xl, x_max |-> None, y_min |-> None, y_max |-> yh,
       interactive |-> i, width |-> 6, height |-> 3,
       x_as_log |-> FALSE, y_as_log |-> FALSE, legend_labels |-> None] :
        xl \in { None, Some(-13) }, yh \in { None, Some(24) }, i \in BOOLEAN }

(* -------------------- view configuration (Options) ---------------------- *)

Bounds(o) == [x_min |-> o.x_min, x_max |-> o.x_max, y_min |-> o.y_min, y_max |-> o.y_max]

\* No span is synthesized.
SynthesizeSpan_none(lo, hi) == <<lo, hi>>

\* An axis of zero span is given a span: +-DegeneratePad.
SynthesizeSpan(lo, hi) ==
    IF lo = hi THEN <<lo - DegeneratePad, hi + DegeneratePad>> ELSE <<lo, hi>>

\* derive_bounds(series_stats, user_overrides): per axis, explicit user bound
\* if given, else series min/max; a degenerate range gets a synthesized span.
derive_bounds(s, kw) ==
    LET xl == IF kw.x_min # None THEN kw.x_min[1] ELSE s.x_min
        xh == IF kw.x_max # None THEN kw.x_max[1] ELSE s.x_max
        yl == IF kw.y_min # None THEN kw.y_min[1] ELSE s.y_min
        yh == IF kw.y_max # None THEN kw.y_max[1] ELSE s.y_max
        x  == SynthesizeSpan(xl, xh)
        y  == SynthesizeSpan(yl, yh)
    IN  [x_min |-> x[1], x_max |-> x[2], y_min |-> y[1], y_max |-> y[2]]

\* validate_and_transform_options(series, kwargs): the Options object, with
\* the derived bounds captured for reset.
validate_and_transform_options(s, kw) ==
    LET b == derive_bounds(s, kw)
    IN  [x_min |-> b.x_min, x_max |-> b.x_max, y_min |-> b.y_min, y_max |-> b.y_max,
         x_as_log |-> kw.x_as_log, y_as_log |-> kw.y_as_log,
         width |-> kw.width, height |-> kw.height,
         legend_labels |-> kw.legend_labels,
         interactive |-> kw.interactive,
         initial_bounds |-> b]

\* step_fraction * (max - min)
PanStep(span) == span \div PanDen

shift_view_left(o) ==
    LET step == PanStep(o.x_max - o.x_min)
    IN  [o EXCEPT !.x_min = @ - step, !.x_max = @ - step]

shift_view_right(o) ==
    LET step == PanStep(o.x_max - o.x_min)
    IN  [o EXCEPT !.x_min = @ + step, !.x_max = @ + step]

shift_view_down(o) ==
    LET step == PanStep(o.y_max - o.y_min)
    IN  [o EXCEPT !.y_min = @ - step, !.y_max = @ - step]

shift_view_up(o) ==
    LET step == PanStep(o.y_max - o.y_min)
    IN  [o EXCEPT !.y_min = @ + step, !.y_max = @ + step]

\* The span after zoom(factor): divided by the factor when zooming in, but
\* never shrunk below MinSpan; multiplied by it when zooming out.
ZoomInSpan(span) == Min(span, Max(span \div ZoomFactor, MinSpan))
ZoomOutSpan(span) == span * ZoomFactor

\* "recompute both bounds around the current center": c -+ span/2, with
\* c = (lo + hi) / 2.
AroundCenter(lo, hi, span) == <<((lo + hi) - span) \div 2, ((lo + hi) + span) \div 2>>

zoom_in(o) ==
    LET x == AroundCenter(o.x_min, o.x_max, ZoomInSpan(o.x_max - o.x_min))
        y == AroundCenter(o.y_min, o.y_max, ZoomInSpan(o.y_max - o.y_min))
    IN  [o EXCEPT !.x_min = x[1], !.x_max = x[2], !.y_min = y[1], !.y_max = y[2]]

zoom_out(o) ==
    LET x == AroundCenter(o.x_min, o.x_max, ZoomOutSpan(o.x_max - o.x_min))
        y == AroundCenter(o.y_min, o.y_max, ZoomOutSpan(o.y_max - o.y_min))
    IN  [o EXCEPT !.x_min = x[1], !.x_max = x[2], !.y_min = y[1], !.y_max = y[2]]

\* reset that exchanges the current bounds and the saved ones.
reset_view_swap(o) ==
    [o EXCEPT !.x_min = o.initial_bounds.x_min, !.x_max = o.initial_bounds.x_max,
              !.y_min = o.initial_bounds.y_min, !.y_max = o.initial_bounds.y_max,
              !.initial_bounds = Bounds(o)]

reset_view(o) ==
    [o EXCEPT !.x_min = o.initial_bounds.x_min, !.x_max = o.initial_bounds.x_max,
              !.y_min = o.initial_bounds.y_min, !.y_max = o.initial_bounds.y_max]

(* ------------------------------ key reader ------------------------------ *)

\* What getch() can return: one character, or the escape code.
RawKeys == { "h", "l", "j", "k", "u", "n", "r", "q", "ESC", "x", "H", "Q", "X" }

\* str.lower()
Lower(c) ==
    CASE c = "H" -> "h" [] c = "L" -> "l" [] c = "J" -> "j" [] c = "K" -> "k"
      [] c = "U" -> "u" [] c = "N" -> "n" [] c = "R" -> "r" [] c = "Q" -> "q"
      [] c = "X" -> "x" [] OTHER -> c

(* ------------------------------ rendering ------------------------------- *)

\* _generate_plot_str(series, options, with_header): a frame is a function of
\* the series and of the view configuration it is rendered from.
generate_plot_str(s, o, with_header) ==
    [header |-> with_header, data |-> s, view |-> Bounds(o),
     x_as_log |-> o.x_as_log, y_as_log |-> o.y_as_log,
     width |-> o.width, height |-> o.height, legend_labels |-> o.legend_labels]

\* _erase_previous_lines(options): the number of lines erased.
nr_lines_to_erase(o) ==
    o.height + 4 + (IF o.legend_labels # None THEN Len(o.legend_labels[1]) ELSE 0)

(* --------------------------- _process_action ---------------------------- *)

\* Dispatch with the r branch left out.
Dispatch_no_reset(o, k) ==
    CASE k = "h" -> <<shift_view_left(o),  <<"shift_view_left">>,  TRUE>>
      [] k = "l" -> <<shift_view_right(o), <<"shift_view_right">>, TRUE>>
      [] k = "j" -> <<shift_view_down(o),  <<"shift_view_down">>,  TRUE>>
      [] k = "k" -> <<shift_view_up(o),    <<"shift_view_up">>,    TRUE>>
      [] k = "u" -> <<zoom_in(o),          <<"zoom_in">>,          TRUE>>
      [] k = "n" -> <<zoom_out(o),         <<"zoom_out">>,         TRUE>>
      [] k \in {"q", "ESC"} -> <<o, <<>>, FALSE>>
      [] OTHER -> <<o, <<>>, TRUE>>

\* Dispatch with h and j calling each other's operation.
Dispatch_h_j_swapped(o, k) ==
    CASE k = "h" -> <<shift_view_down(o),  <<"shift_view_down">>,  TRUE>>
      [] k = "l" -> <<shift_view_right(o), <<"shift_view_right">>, TRUE>>
      [] k = "j" -> <<shift_view_left(o),  <<"shift_view_left">>,  TRUE>>
      [] k = "k" -> <<shift_view_up(o),    <<"shift_view_up">>,    TRUE>>
      [] k = "u" -> <<zoom_in(o),          <<"zoom_in">>,          TRUE>>
      [] k = "n" -> <<zoom_out(o),         <<"zoom_out">>,         TRUE>>
      [] k = "r" -> <<reset_view(o),       <<"reset_view">>,       TRUE>>
      [] k \in {"q", "ESC"} -> <<o, <<>>, FALSE>>
      [] OTHER -> <<o, <<>>, TRUE>>

\* Dispatch where only q ends the loop.
Dispatch_esc_ignored(o, k) ==
    CASE k = "h" -> <<shift_view_left(o),  <<"shift_view_left">>,  TRUE>>
      [] k = "l" -> <<shift_view_right(o), <<"shift_view_right">>, TRUE>>
      [] k = "j" -> <<shift_view_down(o),  <<"shift_view_down">>,  TRUE>>
      [] k = "k" -> <<shift_view_up(o),    <<"shift_view_up">>,    TRUE>>
      [] k = "u" -> <<zoom_in(o),          <<"zoom_in">>,          TRUE>>
      [] k = "n" -> <<zoom_out(o),         <<"zoom_out">>,         TRUE>>
      [] k = "r" -> <<reset_view(o),       <<"reset_view">>,       TRUE>>
      [] k = "q" -> <<o, <<>>, FALSE>>
      [] OTHER -> <<o, <<>>, TRUE>>

\* Dispatch where a key that matches no branch returns False as well.
Dispatch_else_false(o, k) ==
    CASE k = "h" -> <<shift_view_left(o),  <<"shift_view_left">>,  TRUE>>
      [] k = "l" -> <<shift_view_right(o), <<"shift_view_right">>, TRUE>>
      [] k = "j" -> <<shift_view_down(o),  <<"shift_view_down">>,  TRUE>>
      [] k = "k" -> <<shift_view_up(o),    <<"shift_view_up">>,    TRUE>>
      [] k = "u" -> <<zoom_in(o),          <<"zoom_in">>,          TRUE>>
      [] k = "n" -> <<zoom_out(o),         <<"zoom_out">>,         TRUE>>
      [] k = "r" -> <<reset_view(o),       <<"reset_view">>,       TRUE>>
      [] k \in {"q", "ESC"} -> <<o, <<>>, FALSE>>
      [] OTHER -> <<o, <<>>, FALSE>>

\* Dispatch where u falls through to the zoom-out branch as well.
Dispatch_u_falls_through(o, k) ==
    CASE k = "h" -> <<shift_view_left(o),  <<"shift_view_left">>,  TRUE>>
      [] k = "l" -> <<shift_view_right(o), <<"shift_view_right">>, TRUE>>
      [] k = "j" -> <<shift_view_down(o),  <<"shift_view_down">>,  TRUE>>
      [] k = "k" -> <<shift_view_up(o),    <<"shift_view_up">>,    TRUE>>
      [] k = "u" -> <<zoom_out(zoom_in(o)), <<"zoom_in", "zoom_out">>, TRUE>>
      [] k = "n" -> <<zoom_out(o),         <<"zoom_out">>,         TRUE>>
      [] k = "r" -> <<reset_view(o),       <<"reset_view">>,       TRUE>>
      [] k \in {"q", "ESC"} -> <<o, <<>>, FALSE>>
      [] OTHER -> <<o, <<>>, TRUE>>

\* Dispatch where the n branch calls zoom_in, as the u branch does.
Dispatch_n_zooms_in(o, k) ==
    CASE k = "h" -> <<shift_view_left(o),  <<"shift_view_left">>,  TRUE>>
      [] k = "l" -> <<shift_view_right(o), <<"shift_view_right">>, TRUE>>
      [] k = "j" -> <<shift_view_down(o),  <<"shift_view_down">>,  TRUE>>
      [] k = "k" -> <<shift_view_up(o),    <<"shift_view_up">>,    TRUE>>
      [] k = "u" -> <<zoom_in(o),          <<"zoom_in">>,          TRUE>>
      [] k = "n" -> <<zoom_in(o),          <<"zoom_in">>,          TRUE>>
      [] k = "r" -> <<reset_view(o),       <<"reset_view">>,       TRUE>>
      [] k \in {"q", "ESC"} -> <<o, <<>>, FALSE>>
      [] OTHER -> <<o, <<>>, TRUE>>

\* The dispatch of _process_action, for the lower-cased key k:
\* <<the options after the call, the operations invoked, the return value>>.
Dispatch(o, k) ==
    CASE k = "h" -> <<shift_view_left(o),  <<"shift_view_left">>,  TRUE>>
      [] k = "l" -> <<shift_view_right(o), <<"shift_view_right">>, TRUE>>
      [] k = "j" -> <<shift_view_down(o),  <<"shift_view_down">>,  TRUE>>
      [] k = "k" -> <<shift_view_up(o),    <<"shift_view_up">>,    TRUE>>
      [] k = "u" -> <<zoom_in(o),          <<"zoom_in">>,          TRUE>>
      [] k = "n" -> <<zoom_out(o),         <<"zoom_out">>,         TRUE>>
      [] k = "r" -> <<reset_view(o),       <<"reset_view">>,       TRUE>>
      [] k \in {"q", "ESC"} -> <<o, <<>>, FALSE>>
      [] OTHER -> <<o, <<>>, TRUE>>

(* ------------------------------- plot() --------------------------------- *)

\* Lines 24-25: the series and the options are constructed.
Init ==
    /\ pc = "start"
    /\ series \in SeriesInputs
    /\ kwargs \in KwargsInputs
    /\ options = validate_and_transform_options(series, kwargs)
    /\ key_pressed = "none"
    /\ raw_key = "none"
    /\ nKeys = 0
    /\ calls = <<>>
    /\ out = <<>>
    /\ screen = None
    /\ before = [view |-> Bounds(options), key |-> key_pressed]
    /\ entry \in {"plot", "plot_to_string"}
    /\ returned = None
    /\ nFrames = 0
    /\ sess = Unused /\ gen = Unused /\ hist = Unused /\ logp = Unused

\* Line 27: print(_generate_plot_str(series, options))
Start ==
    /\ pc = "start"
    /\ entry = "plot"
    /\ screen' = Some(generate_plot_str(series, options, TRUE))
    /\ out' = <<"frame">>
    /\ nFrames' = nFrames + 1
    /\ pc' = "while"
    /\ UNCHANGED <<series, kwargs, options, key_pressed, raw_key, nKeys, calls, before>>
    /\ UNCHANGED <<entry, returned, sess, gen, hist, logp>>

\* The loop as an if: the body runs at most once.
While_runs_once ==
    /\ pc = "while"
    /\ pc' = IF options.interactive /\ nKeys = 0 THEN "process" ELSE "done"
    /\ UNCHANGED <<series, kwargs, options, key_pressed, raw_key, nKeys, calls, out, screen, before>>
    /\ UNCHANGED <<entry, returned, nFrames, sess, gen, hist, logp>>

\* Line 31: while options.interactive
While ==
    /\ pc = "while"
    /\ pc' = IF options.interactive THEN "process" ELSE "done"
    /\ UNCHANGED <<series, kwargs, options, key_pressed, raw_key, nKeys, calls, out, screen, before>>
    /\ UNCHANGED <<entry, returned, nFrames, sess, gen, hist, logp>>

\* The loop left by a break as soon as _process_action returns False.
ProcessAction_break ==
    /\ pc = "process"
    /\ nKeys < MaxKeys
    /\ \E c \in RawKeys :
         LET d == Dispatch(options, Lower(c))
         IN  /\ raw_key' = c
             /\ key_pressed' = Lower(c)
             /\ options' = [d[1] EXCEPT !.interactive = d[3]]
             /\ calls' = d[2]
             /\ pc' = IF d[3] THEN "erase" ELSE "done"
    /\ nKeys' = nKeys + 1
    /\ before' = [view |-> Bounds(options), key |-> key_pressed]
    /\ out' = <<>>
    /\ UNCHANGED <<series, kwargs, screen>>
    /\ UNCHANGED <<entry, returned, nFrames, sess, gen, hist, logp>>

\* Line 32: options.interactive = _process_action(options); the prompt is
\* printed, one key is read, lower-cased and dispatched.
ProcessAction ==
    /\ pc = "process"
    /\ nKeys < MaxKeys
    /\ \E c \in RawKeys :
         LET d == Dispatch(options, Lower(c))
         IN  /\ raw_key' = c
             /\ key_pressed' = Lower(c)
             /\ options' = [d[1] EXCEPT !.interactive = d[3]]
             /\ calls' = d[2]
    /\ nKeys' = nKeys + 1
    /\ before' = [view |-> Bounds(options), key |-> key_pressed]
    /\ out' = <<>>
    /\ pc' = "erase"
    /\ UNCHANGED <<series, kwargs, screen>>
    /\ UNCHANGED <<entry, returned, nFrames, sess, gen, hist, logp>>

\* The loop body with the erase left out.
Erase_skipped ==
    /\ pc = "erase"
    /\ pc' = "print"
    /\ UNCHANGED <<series, kwargs, options, key_pressed, raw_key, nKeys, calls, out, screen, before>>
    /\ UNCHANGED <<entry, returned, nFrames, sess, gen, hist, logp>>

\* Line 34: _erase_previous_lines(options)
Erase ==
    /\ pc = "erase"
    /\ out' = Append(out, "erase")
    /\ pc' = "print"
    /\ UNCHANGED <<series, kwargs, options, key_pressed, raw_key, nKeys, calls, screen, before>>
    /\ UNCHANGED <<entry, returned, nFrames, sess, gen, hist, logp>>

\* Line 36: print(_generate_plot_str(series, options, with_header=False))
Redraw ==
    /\ pc = "print"
    /\ screen' = Some(generate_plot_str(series, options, FALSE))
    /\ out' = Append(out, "frame")
    /\ nFrames' = nFrames + 1
    /\ pc' = "while"
    /\ UNCHANGED <<series, kwargs, options, key_pressed, raw_key, nKeys, calls, before>>
    /\ UNCHANGED <<entry, returned, sess, gen, hist, logp>>

\* plot_to_string with the body of plot: the frame is printed and the loop entered.
PlotToString_as_plot ==
    /\ pc = "start"
    /\ entry = "plot_to_string"
    /\ screen' = Some(generate_plot_str(series, options, TRUE))
    /\ out' = <<"frame">>
    /\ nFrames' = nFrames + 1
    /\ pc' = "while"
    /\ UNCHANGED <<series, kwargs, options, key_pressed, raw_key, nKeys, calls, before>>
    /\ UNCHANGED <<entry, returned, sess, gen, hist, logp>>

\* Lines 132-134, plot_to_string: the series and the options are constructed
\* as in plot, and _generate_plot_str_list(series, options) is returned.
PlotToString ==
    /\ pc = "start"
    /\ entry = "plot_to_string"
    /\ returned' = Some(generate_plot_str(series, options, TRUE))
    /\ pc' = "returned"
    /\ UNCHANGED <<series, kwargs, options, key_pressed, raw_key, nKeys, calls, out, screen, before>>
    /\ UNCHANGED <<entry, nFrames, sess, gen, hist, logp>>

Next == Start \/ While \/ ProcessAction \/ Erase \/ Redraw \/ PlotToString

Spec == Init /\ [][Next]_vars

\* The loop is a single thread that keeps running: every step that can be
\* taken is eventually taken.
FairSpec == Init /\ [][Next]_vars /\ WF_vars(Next)

(* ------------------------ two plot sessions ----------------------------- *)

\* Two calls of plot whose steps interleave.  series and options are locals
\* of each call (lines 24-25): sess[i] holds those of call i, the keys it has
\* read, and the last frame it printed.
Sessions == {1, 2}

\* One options object shared by every call.
Owner_shared(i) == 1

\* The options a call works on are its own.
Owner(i) == i

SessionKwargs ==
    [x_min |-> None, x_max |-> None, y_min |-> None, y_max |-> None,
     interactive |-> TRUE, width |-> 6, height |-> 3,
     x_as_log |-> FALSE, y_as_log |-> FALSE, legend_labels |-> None]

NewSession(s) ==
    [pc |-> "process", series |-> s,
     options |-> validate_and_transform_options(s, SessionKwargs),
     first |-> validate_and_transform_options(s, SessionKwargs),
     keys |-> <<>>, screen |-> Some(generate_plot_str(s,
                 validate_and_transform_options(s, SessionKwargs), TRUE))]

InitSessions ==
    /\ sess \in [Sessions -> {NewSession(s) : s \in SeriesInputs}]
    /\ sess[1].series.x_max < sess[2].series.x_max
    /\ sess[1].series.y_min # sess[2].series.y_min
    /\ pc = Unused /\ series = Unused /\ kwargs = Unused /\ options = Unused
    /\ key_pressed = Unused /\ raw_key = Unused /\ nKeys = 0 /\ calls = Unused
    /\ out = Unused /\ screen = Unused /\ before = Unused /\ entry = Unused
    /\ returned = Unused /\ nFrames = 0
    /\ gen = Unused /\ hist = Unused /\ logp = Unused

\* Line 32 in call i: one key is read and dispatched on the options of the call.
SessionKey(i) ==
    /\ sess[i].pc = "process"
    /\ Len(sess[1].keys) + Len(sess[2].keys) < MaxSessionKeys
    /\ \E c \in RawKeys :
         LET d == Dispatch(sess[Owner(i)].options, Lower(c))
         IN  sess' = [sess EXCEPT ![Owner(i)].options = [d[1] EXCEPT !.interactive = d[3]],
                                  ![i].keys = Append(@, Lower(c)),
                                  ![i].pc = "redraw"]
    /\ UNCHANGED <<plotVars, gen, hist, logp>>

\* Lines 34-36 in call i: erase, then print the frame of the call's options.
SessionRedraw(i) ==
    /\ sess[i].pc = "redraw"
    /\ sess' = [sess EXCEPT
                  ![i].screen = Some(generate_plot_str(sess[i].series,
                                                       sess[Owner(i)].options, FALSE)),
                  ![i].pc = IF sess[Owner(i)].options.interactive
                            THEN "process" ELSE "done"]
    /\ UNCHANGED <<plotVars, gen, hist, logp>>

NextSessions == \E i \in Sessions : SessionKey(i) \/ SessionRedraw(i)

SpecSessions == InitSessions /\ [][NextSessions]_vars

(* ------------------------------ plot_gen -------------------------------- *)

\* Options' height when the keyword arguments give none.
DefaultHeight == 3

\* A keyword dictionary, reduced to the keys height, legend_labels and erase:
\* each is absent (None) or present (Some(value)).
NoKwargs == [height |-> None, legend_labels |-> None, erase |-> None]

\* The dictionaries sent as n_kwargs with an update.
GenUpdates ==
    { [height |-> h, legend_labels |-> l, erase |-> e] :
        h \in { None, Some(5) },
        l \in { None, Some(Some(<<"a", "b">>)) },
        e \in { None, Some(FALSE), Some(TRUE) } }

\* The dictionaries plot_gen(**kwargs) is created with.
GenKwargs == { NoKwargs, [NoKwargs EXCEPT !.height = Some(4)] }

\* The data sent with an update.
GenData ==
    { [x_min |-> 0, x_max |-> 35, y_min |-> -8, y_max |-> 24],
      [x_min |-> 0, x_max |-> 0, y_min |-> 9, y_max |-> 9] }

\* `if n_kwargs:` a dictionary is true when it is not empty.
Truthy(n) == n # NoKwargs

\* kwargs.update(n_kwargs)
Update(k, n) == [f \in DOMAIN k |-> IF n[f] # None THEN n[f] ELSE k[f]]

\* n_kwargs.get('erase', True)
GetErase(n) == IF n.erase # None THEN n.erase[1] ELSE TRUE

\* The keyword arguments validate_and_transform_options sees for a dictionary.
KwargsOf(k) ==
    [SessionKwargs EXCEPT
        !.interactive = FALSE,
        !.height = IF k.height # None THEN k.height[1] ELSE DefaultHeight,
        !.legend_labels = IF k.legend_labels # None THEN k.legend_labels[1] ELSE None]

\* What one resumption of the generator sent to the terminal.
EraseEvent(n) == [ev |-> "erase", n |-> n, frame |-> None]
FrameEvent(f) == [ev |-> "frame", n |-> 0, frame |-> Some(f)]

\* gen = plot_gen(**kwargs): the generator object, not yet started.
InitGen ==
    /\ gen \in { [pc |-> "created", kwargs |-> k, kwargs0 |-> k, n_kwargs |-> NoKwargs,
                  data |-> None, options |-> None, out |-> <<>>, sent |-> <<>>] :
                    k \in GenKwargs }
    /\ pc = Unused /\ series = Unused /\ kwargs = Unused /\ options = Unused
    /\ key_pressed = Unused /\ raw_key = Unused /\ nKeys = 0 /\ calls = Unused
    /\ out = Unused /\ screen = Unused /\ before = Unused /\ entry = Unused
    /\ returned = Unused /\ nFrames = 0
    /\ sess = Unused /\ hist = Unused /\ logp = Unused

\* next(gen): the body runs to the yield of line 53.
GenPrime ==
    /\ gen.pc = "created"
    /\ gen' = [gen EXCEPT !.pc = "primed"]
    /\ UNCHANGED <<plotVars, sess, hist, logp>>

\* Lines 55-57: series and options are built and the frame is printed.
RenderFrame(d, k) ==
    FrameEvent(generate_plot_str(d, validate_and_transform_options(d, KwargsOf(k)), TRUE))

\* The first gen.send((ys, xs, n_kwargs)): line 53 assigns, lines 55-57
\* render with the dictionary of the constructor, line 58 yields.
GenSendFirst(u, d) ==
    /\ gen.pc = "primed"
    /\ gen' = [gen EXCEPT
                 !.pc = "yielded",
                 !.n_kwargs = u,
                 !.data = Some(d),
                 !.options = Some(validate_and_transform_options(d, KwargsOf(gen.kwargs))),
                 !.out = << RenderFrame(d, gen.kwargs) >>,
                 !.sent = Append(@, u)]
    /\ UNCHANGED <<plotVars, sess, hist, logp>>

\* A later send where the erase flag is looked up in kwargs after the update.
GenSend_erase_from_kwargs(u, d) ==
    /\ gen.pc = "yielded"
    /\ Len(gen.sent) < MaxUpdates
    /\ LET k == IF Truthy(u) THEN Update(gen.kwargs, u) ELSE gen.kwargs
           erased == IF GetErase(k)
                     THEN << EraseEvent(nr_lines_to_erase(gen.options[1])) >>
                     ELSE <<>>
       IN  gen' = [gen EXCEPT
                     !.n_kwargs = u,
                     !.kwargs = k,
                     !.data = Some(d),
                     !.options = Some(validate_and_transform_options(d, KwargsOf(k))),
                     !.out = erased \o << RenderFrame(d, k) >>,
                     !.sent = Append(@, u)]
    /\ UNCHANGED <<plotVars, sess, hist, logp>>

\* A later gen.send((ys, xs, n_kwargs)): line 58 assigns, lines 59-60 update
\* kwargs, lines 61-62 erase the lines of the options rendered last, lines
\* 55-57 render the next frame, line 58 yields.
GenSend(u, d) ==
    /\ gen.pc = "yielded"
    /\ Len(gen.sent) < MaxUpdates
    /\ LET k == IF Truthy(u) THEN Update(gen.kwargs, u) ELSE gen.kwargs
           erased == IF GetErase(u)
                     THEN << EraseEvent(nr_lines_to_erase(gen.options[1])) >>
                     ELSE <<>>
       IN  gen' = [gen EXCEPT
                     !.n_kwargs = u,
                     !.kwargs = k,
                     !.data = Some(d),
                     !.options = Some(validate_and_transform_options(d, KwargsOf(k))),
                     !.out = erased \o << RenderFrame(d, k) >>,
                     !.sent = Append(@, u)]
    /\ UNCHANGED <<plotVars, sess, hist, logp>>

NextGen ==
    \/ GenPrime
    \/ \E u \in GenUpdates, d \in GenData : GenSendFirst(u, d)
    \/ \E u \in GenUpdates, d \in GenData : GenSend(u, d)

SpecGen == InitGen /\ [][NextGen]_vars

(* ------------------------------ histogram ------------------------------- *)

\* Values are fixed-point numbers in units of 1/1200, so that a tenth of a
\* span and a span divided by the number of bins are exact.
HistValues == { 0, 1200, 2400 }
HistLimits == { None, Some(600), Some(1800) }

\* 0.1 * delta
Tenth(d) == d \div 10

\* histogram(xs, bins, bins_min, bins_max) is entered; y_min and y_max are
\* the extremes of the data over all series (line 161).
InitHist ==
    /\ hist \in { [pc |-> "start", y_min |-> lo, y_max |-> hi, bins |-> b,
                   bins_min |-> bmin, bins_max |-> bmax,
                   bins_min_real |-> None, bins_max_real |-> None, delta |-> None,
                   bin_edges |-> <<>>, plot_calls |-> 0, printed |-> 0] :
                     lo \in HistValues, hi \in HistValues,
                     b \in 1..MaxBins, bmin \in HistLimits, bmax \in HistLimits }
    /\ hist.y_min <= hist.y_max
    /\ pc = Unused /\ series = Unused /\ kwargs = Unused /\ options = Unused
    /\ key_pressed = Unused /\ raw_key = Unused /\ nKeys = 0 /\ calls = Unused
    /\ out = Unused /\ screen = Unused /\ before = Unused /\ entry = Unused
    /\ returned = Unused /\ nFrames = 0
    /\ sess = Unused /\ gen = Unused /\ logp = Unused

\* The limits, with an assertion that lets equal limits through.
HistAssert_ge ==
    /\ hist.pc = "start"
    /\ LET lo == IF hist.bins_min # None THEN hist.bins_min[1] ELSE hist.y_min
           hi == IF hist.bins_max # None THEN hist.bins_max[1] ELSE hist.y_max
       IN  hist' = [hist EXCEPT
                      !.bins_min_real = Some(lo),
                      !.bins_max_real = Some(hi),
                      !.pc = IF hi >= lo THEN "checked" ELSE "failed"]
    /\ UNCHANGED <<plotVars, sess, gen, logp>>

\* Lines 166-168: the limits before expansion, and the assertion.
HistAssert ==
    /\ hist.pc = "start"
    /\ LET lo == IF hist.bins_min # None THEN hist.bins_min[1] ELSE hist.y_min
           hi == IF hist.bins_max # None THEN hist.bins_max[1] ELSE hist.y_max
       IN  hist' = [hist EXCEPT
                      !.bins_min_real = Some(lo),
                      !.bins_max_real = Some(hi),
                      !.pc = IF hi > lo THEN "checked" ELSE "failed"]
    /\ UNCHANGED <<plotVars, sess, gen, logp>>

\* The expansion with the span taken again after the lower limit has moved.
HistExpand_delta_recomputed ==
    /\ hist.pc = "checked"
    /\ LET delta == hist.bins_max_real[1] - hist.bins_min_real[1]
           lo == IF hist.bins_min = None
                 THEN hist.bins_min_real[1] - Tenth(delta)
                 ELSE hist.bins_min_real[1]
           hi == IF hist.bins_max = None
                 THEN hist.bins_max_real[1] + Tenth(hist.bins_max_real[1] - lo)
                 ELSE hist.bins_max_real[1]
       IN  hist' = [hist EXCEPT
                      !.delta = Some(delta),
                      !.bins_min_real = Some(lo),
                      !.bins_max_real = Some(hi),
                      !.pc = "expanded"]
    /\ UNCHANGED <<plotVars, sess, gen, logp>>

\* Lines 172-176: a limit that was not supplied moves outward by 0.1 * delta.
HistExpand ==
    /\ hist.pc = "checked"
    /\ LET delta == hist.bins_max_real[1] - hist.bins_min_real[1]
           lo == IF hist.bins_min = None
                 THEN hist.bins_min_real[1] - Tenth(delta)
                 ELSE hist.bins_min_real[1]
           hi == IF hist.bins_max = None
                 THEN hist.bins_max_real[1] + Tenth(delta)
                 ELSE hist.bins_max_real[1]
       IN  hist' = [hist EXCEPT
                      !.delta = Some(delta),
                      !.bins_min_real = Some(lo),
                      !.bins_max_real = Some(hi),
                      !.pc = "expanded"]
    /\ UNCHANGED <<plotVars, sess, gen, logp>>

\* Lines 179-182: bins_min_real + i * (bins_max_real - bins_min_real) / bins
\* for i in range(bins + 1).
HistEdges ==
    /\ hist.pc = "expanded"
    /\ LET lo == hist.bins_min_real[1]
           hi == hist.bins_max_real[1]
       IN  hist' = [hist EXCEPT
                      !.bin_edges = [j \in 1..(hist.bins + 1) |->
                                        lo + ((j - 1) * (hi - lo)) \div hist.bins],
                      !.pc = "edges"]
    /\ UNCHANGED <<plotVars, sess, gen, logp>>

\* Lines 184-193: the bar chart points are computed and plot is called; it
\* prints one frame (interactive is not set).
HistPlot ==
    /\ hist.pc = "edges"
    /\ hist' = [hist EXCEPT !.plot_calls = @ + 1, !.printed = @ + 1, !.pc = "done"]
    /\ UNCHANGED <<plotVars, sess, gen, logp>>

NextHist == HistAssert \/ HistExpand \/ HistEdges \/ HistPlot

SpecHist == InitHist /\ [][NextHist]_vars

(* --------------------- log scale and invalid values --------------------- *)

\* A coordinate is a number, NaN or missing.
Num(v) == [kind |-> "num", v |-> v]
NaN == [kind |-> "nan", v |-> 0]
Missing == [kind |-> "missing", v |-> 0]
Point(x, y) == [x |-> x, y |-> y]

\* The points plotted: valid ones (powers of two, so that the logarithm is
\* an integer) and one for each kind of invalid coordinate.
LogPoints ==
    { Point(Num(1), Num(1)), Point(Num(4), Num(16)), Point(Num(16), Num(4)),
      Point(Num(-1), Num(4)), Point(Num(4), Num(0)),
      Point(NaN, Num(4)), Point(Num(16), Missing) }

\* Width and height of the grid the points are mapped to.
GridSize == 5

\* log(value), to base 2, for a positive power of two.
Log2(v) == CHOOSE e \in 0..4 : 2 ^ e = v

\* A value is invalid if it is non-finite, missing, or non-positive under
\* log scale.
IsInvalid(c, as_log) == c.kind # "num" \/ (as_log /\ c.v <= 0)

ValidPoint(q) == ~IsInvalid(q.x, TRUE) /\ ~IsInvalid(q.y, TRUE)

\* A series is discarded as a whole when one of its points is invalid.
DropInvalid_whole_series(ps) ==
    IF \E j \in 1..Len(ps) : ~ValidPoint(ps[j]) THEN <<>> ELSE ps

\* Invalid points are dropped from their series.
DropInvalid(ps) == SelectSeq(ps, ValidPoint)

\* All sequences of 1..n elements of S.
SeqsUpTo(S, n) == UNION { [1..k -> S] : k \in 1..n }

\* plot(ys, xs, x_as_log=True, y_as_log=True) is entered with one series or
\* with two.
InitLog ==
    /\ logp \in { [pc |-> "input", input |-> in, kept |-> <<>>, view |-> None,
                   grid |-> <<>>, error |-> None] :
                     in \in SeqsUpTo(SeqsUpTo(LogPoints, MaxLogLen), 2) }
    /\ pc = Unused /\ series = Unused /\ kwargs = Unused /\ options = Unused
    /\ key_pressed = Unused /\ raw_key = Unused /\ nKeys = 0 /\ calls = Unused
    /\ out = Unused /\ screen = Unused /\ before = Unused /\ entry = Unused
    /\ returned = Unused /\ nFrames = 0
    /\ sess = Unused /\ gen = Unused /\ hist = Unused

\* Line 24: MultiSeries builds the canonical series, each on its own.
LogSeries ==
    /\ logp.pc = "input"
    /\ logp' = [logp EXCEPT
                  !.kept = [i \in 1..Len(logp.input) |-> DropInvalid(logp.input[i])],
                  !.pc = "series"]
    /\ UNCHANGED <<plotVars, sess, gen, hist>>

\* Smallest and largest element of a set of numbers.
SetMin(S) == CHOOSE m \in S : \A n \in S : m <= n
SetMax(S) == CHOOSE m \in S : \A n \in S : m >= n

\* The points kept, over all series.
KeptPoints(kept) ==
    UNION { { kept[i][j] : j \in 1..Len(kept[i]) } : i \in 1..Len(kept) }

\* Line 25: the bounds under log scale go from the smallest positive valid
\* value to the largest; without any, NoPositiveDataForLogScale is raised.
LogBounds ==
    /\ logp.pc = "series"
    /\ LET pts == KeptPoints(logp.kept)
           lx  == { Log2(q.x.v) : q \in pts }
           ly  == { Log2(q.y.v) : q \in pts }
       IN  IF pts = {}
           THEN logp' = [logp EXCEPT !.pc = "failed",
                                     !.error = Some("NoPositiveDataForLogScale")]
           ELSE LET x == SynthesizeSpan(SetMin(lx), SetMax(lx))
                    y == SynthesizeSpan(SetMin(ly), SetMax(ly))
                IN  logp' = [logp EXCEPT
                               !.view = Some([x_min |-> x[1], x_max |-> x[2],
                                              y_min |-> y[1], y_max |-> y[2]]),
                               !.pc = "bounded"]
    /\ UNCHANGED <<plotVars, sess, gen, hist>>

\* Linear interpolation from [lo, hi] to [0, GridSize - 1], rounded to the
\* nearest cell.
Interpolate(l, lo, hi) ==
    (2 * (l - lo) * (GridSize - 1) + (hi - lo)) \div (2 * (hi - lo))

\* map(x, y): the cell of a valid point, logarithm first.
MapPoint(q, view) ==
    << Interpolate(Log2(q.x.v), view.x_min, view.x_max),
       Interpolate(Log2(q.y.v), view.y_min, view.y_max) >>

\* Line 27: every point kept marks its cell; the later series wins the
\* glyph of a shared cell.
LogRaster ==
    /\ logp.pc = "bounded"
    /\ LET CellsOf(i) == { MapPoint(logp.kept[i][j], logp.view[1]) :
                              j \in 1..Len(logp.kept[i]) }
           marked == UNION { CellsOf(i) : i \in 1..Len(logp.kept) }
       IN  logp' = [logp EXCEPT
                      !.grid = [c \in marked |->
                                  SetMax({ i \in 1..Len(logp.kept) : c \in CellsOf(i) })],
                      !.pc = "rendered"]
    /\ UNCHANGED <<plotVars, sess, gen, hist>>

NextLog == LogSeries \/ LogBounds \/ LogRaster

SpecLog == InitLog /\ [][NextLog]_vars

(* ------------------------------- claims --------------------------------- *)

Running == options.interactive

\* The step that is one call of _process_action.
ProcessStep == pc = "process" /\ pc' = "erase"

\* The transition table of the controller: the one view operation of a key.
TableOp(k) ==
    CASE k = "h" -> "shift_view_left"
      [] k = "l" -> "shift_view_right"
      [] k = "j" -> "shift_view_down"
      [] k = "k" -> "shift_view_up"
      [] k = "u" -> "zoom_in"
      [] k = "n" -> "zoom_out"
      [] k = "r" -> "reset_view"

TableKeys == { "h", "l", "j", "k", "u", "n", "r" }
QuitKeys == { "q", "ESC" }

\* C1: in Running, one call of _process_action reads exactly one key, and for
\* a key h, l, j, k, u, n, r invokes exactly the one view operation of the
\* transition table, once, and no other; the controller stays Running.
C1_Dispatch ==
    [][ (ProcessStep /\ Running) =>
          /\ nKeys' = nKeys + 1
          /\ raw_key' \in TableKeys =>
               /\ key_pressed' = raw_key'
               /\ calls' = << TableOp(raw_key') >>
               /\ Running' ]_vars

C1_Witness == pc = "erase" /\ raw_key = "u" /\ calls = <<"zoom_in">> /\ Running

\* C2: once q or ESC has been read the loop is Stopped, and no key is read
\* afterwards: the number of getch calls never changes again.
C2_StoppedTerminal ==
    [][ (nKeys > 0 /\ key_pressed \in QuitKeys) => (~Running /\ nKeys' = nKeys) ]_vars

C2_Witness == pc = "done" /\ raw_key = "ESC" /\ nKeys > 1

\* C3: a key other than h, l, j, k, u, n, r, q and ESC is a no-op: the
\* controller stays Running, and no field of the view configuration changes.
\* The key is the one _process_action dispatches on (key_pressed).
C3_OtherKeyNoOp ==
    [][ (ProcessStep /\ key_pressed' \notin (TableKeys \cup QuitKeys)) =>
          (options' = options /\ Running' /\ calls' = <<>>) ]_vars

C3_Witness ==
    /\ pc = "erase" /\ raw_key = "x" /\ Running
    /\ Bounds(options) # options.initial_bounds

\* C4: between two consecutive key reads there is exactly one erase followed
\* by exactly one redraw, and the frame redrawn is the one of the view
\* configuration as the key just processed left it.
C4_OneRerenderPerKey ==
    (pc = "process" /\ nKeys > 0) =>
        /\ out = <<"erase", "frame">>
        /\ screen = Some(generate_plot_str(series, options, FALSE))

C4_Witness ==
    /\ pc = "process" /\ nKeys > 1 /\ key_pressed = "h"
    /\ Bounds(options) # before.view

\* C5: after any sequence of pans and zooms, reset (key r) restores the four
\* bounds to exactly the bounds derived when the options were constructed.
C5_ResetRestores ==
    (pc = "erase" /\ key_pressed = "r") =>
        Bounds(options) = derive_bounds(series, kwargs)

C5_Witness ==
    /\ pc = "erase" /\ key_pressed = "r" /\ nKeys = 3
    /\ before.key \in {"h", "l", "j", "k", "u", "n"}
    /\ before.view.x_min # options.x_min
    /\ before.view.x_max - before.view.x_min # options.x_max - options.x_min

PanShift(lo, hi, lo2, hi2) ==
    /\ lo2 - lo = hi2 - hi
    /\ hi2 - lo2 = hi - lo
    /\ lo2 - lo \in { PanStep(hi - lo), 0 - PanStep(hi - lo) }
    /\ lo2 # lo

C8_PanShiftsOneAxis ==
    [][ ProcessStep =>
          /\ key_pressed' \in {"h", "l"} =>
               /\ PanShift(options.x_min, options.x_max, options'.x_min, options'.x_max)
               /\ options'.y_min = options.y_min /\ options'.y_max = options.y_max
          /\ key_pressed' \in {"j", "k"} =>
               /\ PanShift(options.y_min, options.y_max, options'.y_min, options'.y_max)
               /\ options'.x_min = options.x_min /\ options'.x_max = options.x_max ]_vars

C8_Witness ==
    /\ pc = "erase" /\ nKeys = 3 /\ key_pressed = "j" /\ before.key = "u"
    /\ options.y_min < before.view.y_min
    /\ options.x_min = before.view.x_min

\* Two values agree within the tolerance: one model unit.
Close(a, b) == a - b \in {-1, 0, 1}

\* The zoom-in of an axis is limited by the minimum-span rule.
Limited(lo, hi) == (hi - lo) \div ZoomFactor < MinSpan

\* C9 as stated: u then n returns all four bounds to within the tolerance
\* of their values before the u, also when the zoom-in was limited.
C9_ZoomRoundTrip ==
    [][ (ProcessStep /\ nKeys > 0 /\ key_pressed = "u" /\ key_pressed' = "n") =>
          /\ Close(options'.x_min, before.view.x_min)
          /\ Close(options'.x_max, before.view.x_max)
          /\ Close(options'.y_min, before.view.y_min)
          /\ Close(options'.y_max, before.view.y_max) ]_vars

\* C9 amended: u then n returns both bounds of an axis to within the
\* tolerance of their values before the u, when the zoom-in of that axis was
\* not limited by the minimum-span rule.
C9_ZoomRoundTripUnlimited ==
    [][ (ProcessStep /\ nKeys > 0 /\ key_pressed = "u" /\ key_pressed' = "n") =>
          /\ ~Limited(before.view.x_min, before.view.x_max) =>
               /\ Close(options'.x_min, before.view.x_min)
               /\ Close(options'.x_max, before.view.x_max)
          /\ ~Limited(before.view.y_min, before.view.y_max) =>
               /\ Close(options'.y_min, before.view.y_min)
               /\ Close(options'.y_max, before.view.y_max) ]_vars

\* u then n on a view whose x span is odd and whose zoom-in is limited on
\* neither axis: the bounds are back within the tolerance, not exactly.
C9_Witness ==
    /\ pc = "erase" /\ nKeys = 2 /\ key_pressed = "n" /\ before.key = "u"
    /\ series.x_max - series.x_min = 35 /\ kwargs.x_min = None
    /\ series.y_min # series.y_max
    /\ Bounds(options) # options.initial_bounds
    /\ Close(options.x_min, options.initial_bounds.x_min)
    /\ Close(options.x_max, options.initial_bounds.x_max)

\* C10: the loop is left only by q or ESC, whatever the other keys and the
\* view operations do, and once q or ESC has been read plot returns.
C10_OnlyQuitEndsLoop ==
    /\ [][ (Running /\ ~Running') => (ProcessStep /\ key_pressed' \in QuitKeys) ]_vars
    /\ [](pc = "done" => ~Running)
    /\ (nKeys > 0 /\ key_pressed \in QuitKeys) ~> (pc = "done")

C10_Witness == pc = "done" /\ nKeys = 3 /\ key_pressed = "q" /\ before.key = "n"

\* C11: plot_to_string ignores the interactive option: it reads no key,
\* erases nothing, prints nothing, and returns exactly one frame, rendered
\* with header from the options of the call.
C11_ToStringOneShot ==
    entry = "plot_to_string" =>
        /\ nKeys = 0 /\ out = <<>> /\ screen = None /\ nFrames = 0
        /\ pc \in {"start", "returned"}
        /\ pc = "start" => returned = None
        /\ pc = "returned" => returned = Some(generate_plot_str(series, options, TRUE))

C11_Witness ==
    /\ entry = "plot_to_string" /\ pc = "returned" /\ kwargs.interactive
    /\ returned # None /\ returned[1].header

\* C16: with the interactive option off, the body of the main loop of plot
\* (key read, erase, re-render) is executed once.
C16_BodyOnceWhenNotInteractive ==
    (entry = "plot" /\ pc = "done" /\ ~kwargs.interactive) =>
        (nKeys = 1 /\ nFrames = 2)

\* C17: at every key-read point the frames printed are one more than the
\* keys read; q or ESC leaves the bounds unchanged and is followed by one
\* erase and one final redraw, which shows the view as it was before the key.
C17_FramesAndFinalRedraw ==
    /\ pc = "process" => nFrames = nKeys + 1
    /\ (pc = "done" /\ nKeys > 0) =>
         /\ key_pressed \in QuitKeys
         /\ Bounds(options) = before.view
         /\ out = <<"erase", "frame">>
         /\ nFrames = nKeys + 1
         /\ screen = Some(generate_plot_str(series, options, FALSE))
         /\ screen[1].view = before.view

C17_Witness ==
    /\ pc = "done" /\ nKeys = 3 /\ raw_key = "ESC" /\ before.key = "u"
    /\ Bounds(options) # options.initial_bounds

\* The options a call of plot has after reading the keys ks, in order, with
\* no other call running.
RECURSIVE Replay(_, _)
Replay(o, ks) ==
    IF ks = <<>> THEN o
    ELSE LET d == Dispatch(o, Head(ks))
         IN  Replay([d[1] EXCEPT !.interactive = d[3]], Tail(ks))

\* C13: two sessions that each own their view configuration do not
\* interfere: after any interleaving the options of each are those its own
\* keys alone produce, and rendering a frame changes no options.
C13_SessionsIndependent ==
    /\ [](\A i \in Sessions : sess[i].options = Replay(sess[i].first, sess[i].keys))
    /\ [][ \A i \in Sessions :
             (sess[i].pc = "redraw" /\ sess'[i].pc # "redraw") =>
                 \A j \in Sessions : sess'[j].options = sess[j].options ]_vars

C13_Witness ==
    /\ Len(sess[1].keys) = 2 /\ Len(sess[2].keys) = 1
    /\ sess[1].keys[1] = "u" /\ sess[2].keys[1] = "h" /\ sess[1].keys[2] = "k"
    /\ sess[1].pc = "process" /\ sess[2].pc = "redraw"
    /\ Bounds(sess[2].options) # sess[2].first.initial_bounds

\* The dictionary k after every update of the sequence us, the first included.
RECURSIVE UpdateAll(_, _)
UpdateAll(k, us) ==
    IF us = <<>> THEN k ELSE UpdateAll(Update(k, Head(us)), Tail(us))

\* The frames among the events of one resumption.
FramesOf(evs) == { i \in 1..Len(evs) : evs[i].ev = "frame" }

\* C14: the options supplied with any update, the first one sent after
\* priming included, are in effect for the frame rendered for that update
\* and for the later ones until overridden, and each update renders exactly
\* one frame, from that update's data.
C14_UpdateOptionsInEffect ==
    gen.pc = "yielded" =>
        LET want == KwargsOf(UpdateAll(gen.kwargs0, gen.sent))
            f    == gen.out[Len(gen.out)].frame[1]
        IN  /\ Cardinality(FramesOf(gen.out)) = 1
            /\ f.data = gen.data[1]
            /\ f.height = want.height
            /\ f.legend_labels = want.legend_labels

\* C18: for an update after the first frame, the previous frame is erased
\* once, before the next frame is printed, unless this update passes
\* erase=False; an earlier erase=False does not carry over; the number of
\* lines erased is that of the options rendered last, not of the updated ones.
C18_EraseBeforeNextFrame ==
    [][ (gen.pc = "yielded" /\ Len(gen'.sent) = Len(gen.sent) + 1) =>
          LET u == gen'.sent[Len(gen'.sent)]
          IN  /\ (u.erase = Some(FALSE)) =>
                    (Len(gen'.out) = 1 /\ gen'.out[1].ev = "frame")
              /\ (u.erase # Some(FALSE)) =>
                    /\ Len(gen'.out) = 2
                    /\ gen'.out[1] = EraseEvent(nr_lines_to_erase(gen.options[1]))
                    /\ gen'.out[2].ev = "frame" ]_vars

\* An update without erase key after one with erase=False, which raises
\* the height: the erase happens, with the line count of the old options.
C18_Witness ==
    /\ gen.pc = "yielded" /\ Len(gen.sent) = 3
    /\ gen.sent[2].erase = Some(FALSE) /\ gen.sent[3].erase = None
    /\ gen.sent[3].height = Some(5) /\ gen.sent[3].legend_labels # None
    /\ Len(gen.out) = 2 /\ gen.out[1].ev = "erase"
    /\ gen.out[1].n # nr_lines_to_erase(gen.options[1])

\* The limits as the caller's arguments and the data give them, before any
\* expansion.
EffectiveMin == IF hist.bins_min # None THEN hist.bins_min[1] ELSE hist.y_min
EffectiveMax == IF hist.bins_max # None THEN hist.bins_max[1] ELSE hist.y_max

\* The limits the edges are to span: a supplied limit unchanged, a missing
\* one moved outward by a tenth of the span between the effective limits.
LowerLimit ==
    IF hist.bins_min # None THEN hist.bins_min[1]
    ELSE hist.y_min - (EffectiveMax - EffectiveMin) \div 10
UpperLimit ==
    IF hist.bins_max # None THEN hist.bins_max[1]
    ELSE hist.y_max + (EffectiveMax - EffectiveMin) \div 10

\* C19: histogram computes bins + 1 edges, strictly increasing and evenly
\* spaced, from the lower limit to the upper limit; a supplied limit is used
\* unchanged and a missing one is the data extreme moved outward by 10% of
\* the span between the limits before expansion.
C19_BinEdges ==
    hist.pc \in { "edges", "done" } =>
        LET e == hist.bin_edges
        IN  /\ Len(e) = hist.bins + 1
            /\ e[1] = LowerLimit
            /\ e[Len(e)] = UpperLimit
            /\ \A j \in 1..(Len(e) - 1) : e[j] < e[j + 1]
            /\ \A j, k \in 1..(Len(e) - 1) : e[j + 1] - e[j] = e[k + 1] - e[k]

\* Three bins, the lower limit expanded below the data, the upper supplied.
C19_Witness ==
    /\ hist.pc = "edges" /\ hist.bins = 3
    /\ hist.bins_min = None /\ hist.bins_max = Some(1800)
    /\ hist.bin_edges[1] < hist.y_min
    /\ hist.bin_edges[4] = 1800

\* C20: when the effective upper limit is not above the effective lower
\* limit the call fails at the assertion, with no edge computed, plot not
\* called and nothing printed; otherwise the assertion passes and plot is
\* called exactly once.
C20_AssertBeforePlot ==
    /\ (EffectiveMax <= EffectiveMin) =>
          /\ hist.pc \in { "start", "failed" }
          /\ hist.bin_edges = <<>> /\ hist.plot_calls = 0 /\ hist.printed = 0
    /\ (EffectiveMax > EffectiveMin) =>
          /\ hist.pc # "failed"
          /\ hist.plot_calls = (IF hist.pc = "done" THEN 1 ELSE 0)
    /\ hist.pc = "failed" => (hist.bin_edges = <<>> /\ hist.plot_calls = 0)

\* The call failed although the data is not constant: bins_min is above the
\* data maximum.
C20_Witness ==
    /\ hist.pc = "failed"
    /\ hist.y_min < hist.y_max
    /\ hist.bins_min = Some(1800) /\ hist.bins_max = None /\ hist.y_max = 1200

\* A point both of whose coordinates are finite, present and positive.
PositiveFinite(q) ==
    /\ q.x.kind = "num" /\ q.x.v > 0
    /\ q.y.kind = "num" /\ q.y.v > 0

\* The valid points of series i of the input.
ValidOf(i) == SelectSeq(logp.input[i], PositiveFinite)

\* C15: under log scale on both axes, for one series and for several, with
\* some valid point in the input: no error is raised, each series drops its
\* own invalid points and keeps its valid ones, and the cells marked in the
\* grid are the cells of the valid points.
C15_LogDropsInvalid ==
    (\E i \in 1..Len(logp.input) : ValidOf(i) # <<>>) =>
        /\ logp.error = None /\ logp.pc # "failed"
        /\ logp.pc # "input" =>
              /\ Len(logp.kept) = Len(logp.input)
              /\ \A i \in 1..Len(logp.input) : logp.kept[i] = ValidOf(i)
        /\ logp.pc = "rendered" =>
              DOMAIN logp.grid =
                  UNION { { MapPoint(ValidOf(i)[j], logp.view[1]) :
                              j \in 1..Len(ValidOf(i)) } :
                          i \in 1..Len(logp.input) }

\* Two series rendered: the first loses one point of two, the second, all
\* of whose points are invalid, is absent from the grid.
C15_Witness ==
    /\ logp.pc = "rendered" /\ Len(logp.input) = 2
    /\ Len(logp.input[1]) = 2 /\ Len(logp.kept[1]) = 1
    /\ Len(logp.input[2]) = 2 /\ logp.kept[2] = <<>>
    /\ DOMAIN logp.grid # {}

====
